---------------------------- MODULE Spec2Model ----------------------------
(***************************************************************************)
(* Semantic code search with token accounting (washedmcp):                 *)
(*   src/src/searcher.py       search_code, search_code_with_stats,        *)
(*                             is_indexed                                  *)
(*   src/src/token_counter.py  count_tokens, count_tokens_batch,           *)
(*                             calculate_savings, estimate_file_tokens     *)
(* The vector index (src.database) and the embedder (src.embedder) are     *)
(* imported by searcher.py but their code is not part of the sources; they *)
(* are modelled from the interface contract of the specification.          *)
(*                                                                         *)
(* A text is a sequence of one-character strings.  Every public operation  *)
(* is one atomic step (the program is single threaded and synchronous);    *)
(* `ret` holds what the last call returned together with the log of the    *)
(* collaborator calls it made and the files it opened.                     *)
(***************************************************************************)
EXTENDS Integers, Sequences, FiniteSets, TLC

\* ------------------------------------------------------------ bounds
\* Largest number of functions held by all persisted indexes together.
MaxItems == 5
\* Largest top_k a caller passes (0 is passed too: a malformed request).
MaxTopK == 5
\* Arguments of calculate_savings range over 0..MaxTokens.
MaxTokens == 11
\* count_tokens_batch is applied to at most MaxTexts texts ...
MaxTexts == 3
\* ... of at most MaxTextLen characters each.
MaxTextLen == 5

\* ------------------------------------------------------------ constants
\* searcher.py:81  "Assume average file is ~500 tokens"
AvgFileTokens == 500
\* searcher.py:81  "we'd need to read ~3 files"
MinFilesRead == 3
\* token_counter.py:41  ~4 characters per token
CharsPerToken == 4

None == "None"
Paths == {"p1", "p2"}
Queries == {"q1", "q2"}
Files == {"a.py", "b.py", "c.py"}
\* Which collaborator raises: storage (init_db), the embedder (embed_query) or
\* the index queries (search, get_stats).  One at a time: a call stops at its
\* first failing step, so it cannot observe a second fault behind the first.
Faults == {"none", "disk", "embedder", "db"}

VARIABLES
    chroma,        \* persist_path -> [dir: is there anything at the path, n: functions indexed]
    collection,    \* the index the database module has open: None or a path
    fault,         \* which collaborator currently fails, if any
    readable,      \* the source files that open() can read and decode
    HAS_TIKTOKEN,  \* tokenizer backend, fixed at import time
    ret            \* the last call of a public operation and what it returned

vars == <<chroma, collection, fault, readable, HAS_TIKTOKEN, ret>>

\* ------------------------------------------------------------ texts
Rep(c, n) == [i \in 1..n |-> c]

RECURSIVE Sum(_, _)
\* sum(f(x) for x in S), for a function f given as a TLA+ function
Sum(f, S) == IF S = {} THEN 0 ELSE LET x == CHOOSE y \in S : TRUE IN f[x] + Sum(f, S \ {x})

RECURSIVE SumSeq(_)
SumSeq(s) == IF s = <<>> THEN 0 ELSE Head(s) + SumSeq(Tail(s))

RECURSIVE Join(_, _)
\* sep.join(texts)
Join(sep, texts) == IF texts = <<>> THEN <<>> ELSE IF Len(texts) = 1 THEN Head(texts) ELSE Head(texts) \o sep \o Join(sep, Tail(texts))

Max(a, b) == IF a >= b THEN a ELSE b

IsLetter(c) == c \in {"a", "b", "c", "d", "e", "f", "x"}

RECURSIVE EncodeLen(_)
\* len(_encoder.encode(text)).  tiktoken is a third-party library; it is
\* abstracted to its pre-tokenizer: every maximal run of letters is one token
\* and every other character is one token.  What the model relies on is only
\* that the count is a function of the text, is at least 1 for a non-empty
\* text, and is not additive under concatenation.
EncodeLen(text) == IF text = <<>> THEN 0 ELSE IF Len(text) >= 2 /\ IsLetter(text[1]) /\ IsLetter(text[2]) THEN EncodeLen(Tail(text)) ELSE 1 + EncodeLen(Tail(text))

\* ------------------------------------------------------------ token_counter.py
count_tokens_ceil(text) == IF text = <<>> THEN 0 ELSE IF HAS_TIKTOKEN THEN EncodeLen(text) ELSE (Len(text) + CharsPerToken - 1) \div CharsPerToken

count_tokens(text) == IF text = <<>> THEN 0 ELSE IF HAS_TIKTOKEN THEN EncodeLen(text) ELSE Len(text) \div CharsPerToken

count_tokens_batch(texts) == SumSeq([i \in 1..Len(texts) |-> count_tokens(texts[i])])

\* round(x, 1) of x = (num / den) * 100, in tenths of a percent: round to the
\* nearest tenth, an exact tie to the even tenth.  (Python rounds the binary
\* float; the two differ only on exact ties with den >= 80, which the values
\* of this model, den < 80 or den = 1500, never produce.)
Round1(num, den) == LET q == (num * 1000) \div den
                        r == (num * 1000) % den
                    IN  IF 2 * r > den \/ (2 * r = den /\ q % 2 = 1) THEN q + 1 ELSE q

calculate_savings_nomax(search_result_tokens, full_file_tokens) ==
    LET tokens_saved == full_file_tokens - search_result_tokens
    IN  [tokens_used |-> search_result_tokens,
         tokens_without_search |-> full_file_tokens,
         tokens_saved |-> tokens_saved,
         percent_saved |-> IF full_file_tokens > 0 THEN Round1(Max(0, tokens_saved), full_file_tokens) ELSE 0]

calculate_savings(search_result_tokens, full_file_tokens) ==
    LET tokens_saved == Max(0, full_file_tokens - search_result_tokens)
    IN  [tokens_used |-> search_result_tokens,
         tokens_without_search |-> full_file_tokens,
         tokens_saved |-> tokens_saved,
         percent_saved |-> IF full_file_tokens > 0 THEN Round1(tokens_saved, full_file_tokens) ELSE 0]

\* What the source files hold (fixed; whether open() succeeds is `readable`).
Content(file_path) ==
    CASE file_path = "a.py" -> <<"d", "e", "f", " ", "a">>
      [] file_path = "b.py" -> <<"d", "e", "f", " ", "b", "(", ")", ":", "\n">>
      [] file_path = "c.py" -> <<"c", "\n">>
      [] OTHER -> <<>>

\* open() raises for a path that is no readable file, "" included.
estimate_file_tokens(file_path) == IF file_path \in readable THEN count_tokens(Content(file_path)) ELSE 0


\* ------------------------------------------------------------ collaborators
\* src.database and src.embedder, from their interface contract.

\* The i-th function an indexer stores.  Records are SearchResult shaped; one
\* has an empty file_path, two share a file, one lacks "code", one lacks
\* "file_path".
Corpus(i) ==
    LET j == ((i - 1) % 6) + 1
    IN  CASE j = 1 -> [function_name |-> "f1", file_path |-> "a.py", code |-> Rep("x", 4)]
          [] j = 2 -> [function_name |-> "f2", file_path |-> "", code |-> Rep("x", 3)]
          [] j = 3 -> [function_name |-> "f3", file_path |-> "a.py", code |-> <<>>]
          [] j = 4 -> [function_name |-> "f4", file_path |-> "b.py", code |-> Rep("x", 1)]
          [] j = 5 -> [function_name |-> "f5", file_path |-> "c.py"]
          [] OTHER -> [function_name |-> "f6", code |-> Rep("x", 2)]

\* The state of the database module: what is persisted and what is open.
World == [chroma |-> chroma, collection |-> collection]

Raise(w) == [raised |-> TRUE, value |-> <<>>, w |-> w]
Return(v, w) == [raised |-> FALSE, value |-> v, w |-> w]

\* init(persist_path): idempotent open/create.  Opening an index that is
\* already open changes nothing; a path that holds no index gets an empty one.
init_db(w, persist_path) ==
    IF fault = "disk" THEN Raise(w)
    ELSE Return(<<>>, [chroma |-> [w.chroma EXCEPT ![persist_path].dir = TRUE],
                       collection |-> persist_path])

\* embed_query(text) -> vector.  Vectors are points of a line: the indexed
\* functions sit at 1, 2, ...; "q1" lies before them and "q2" after them.
embed_query(query) ==
    IF fault = "embedder" THEN [raised |-> TRUE, value |-> 0]
    ELSE [raised |-> FALSE, value |-> IF query = "q1" THEN 0 ELSE MaxItems + 1]

Distance(i, vec) == IF i >= vec THEN i - vec ELSE vec - i

RECURSIVE Nearest(_, _, _)
\* The k items of S closest to vec, closest first, each with its similarity.
Nearest(S, vec, k) ==
    IF S = {} \/ k = 0 THEN <<>>
    ELSE LET i == CHOOSE x \in S : \A y \in S : Distance(x, vec) <= Distance(y, vec)
         IN  <<Corpus(i) @@ [similarity |-> 0 - Distance(i, vec)]>> \o Nearest(S \ {i}, vec, k - 1)

\* search(vector, top_k) -> the top_k nearest records of the open index,
\* closest first (fewer when the index holds fewer); top_k must be positive.
db_search(w, query_embedding, top_k) ==
    IF fault = "db" \/ top_k <= 0 \/ w.collection = None THEN Raise(w)
    ELSE Return(Nearest(1..w.chroma[w.collection].n, query_embedding, top_k), w)

\* get_stats() -> {total_functions: int, ...} of the open index.
get_stats(w) ==
    IF fault = "db" \/ w.collection = None THEN Raise(w)
    ELSE Return([total_functions |-> w.chroma[w.collection].n], w)

\* os.path.exists(persist_path)
exists(w, persist_path) == w.chroma[persist_path].dir

\* dict.get(key, default); a key bound to an empty value is falsy like a
\* missing one.
Get(r, key, default) == IF key \in DOMAIN r THEN r[key] ELSE default

\* ------------------------------------------------------------ searcher.py
\* One entry of the log of collaborator calls: which, whether it returned, what.
Step(fn, r) == [fn |-> fn, ok |-> ~r.raised, out |-> r.value]

\* The mutants of the handlers (used to test the claims' formulas).
search_code_reraise(steps, w) == [value |-> <<>>, raised |-> TRUE, printed |-> FALSE, steps |-> steps, w |-> w]

\* except Exception as e: print(...); return []
search_code_except(steps, w) == [value |-> <<>>, raised |-> FALSE, printed |-> TRUE, steps |-> steps, w |-> w]

\* return results
search_code_return(results, steps, w) == [value |-> results, raised |-> FALSE, printed |-> FALSE, steps |-> steps, w |-> w]

search_code_embed_first(w, query, persist_path, top_k) ==
    LET e == embed_query(query)
        s1 == <<Step("embed_query", e)>>
    IN  IF e.raised THEN search_code_except(s1, w)
        ELSE LET i == init_db(w, persist_path)
                 s2 == Append(s1, Step("init_db", i))
             IN  IF i.raised THEN search_code_except(s2, i.w)
                 ELSE LET s == db_search(i.w, e.value, top_k)
                          s3 == Append(s2, Step("db_search", s))
                      IN  IF s.raised THEN search_code_except(s3, s.w)
                          ELSE search_code_return(s.value, s3, s.w)

search_code(w, query, persist_path, top_k) ==
    LET i == init_db(w, persist_path)
        s1 == <<Step("init_db", i)>>
    IN  IF i.raised THEN search_code_except(s1, i.w)
        ELSE LET e == embed_query(query)
                 s2 == Append(s1, Step("embed_query", e))
             IN  IF e.raised THEN search_code_except(s2, i.w)
                 ELSE LET s == db_search(i.w, e.value, top_k)
                          s3 == Append(s2, Step("db_search", s))
                      IN  IF s.raised THEN search_code_except(s3, s.w)
                          ELSE search_code_return(s.value, s3, s.w)

ZeroStats == [tokens_used |-> 0, tokens_without_search |-> 0, tokens_saved |-> 0, percent_saved |-> 0]

file_paths_keep_empty(results) == {Get(results[i], "file_path", "") : i \in 1..Len(results)}

\* list(set(r.get("file_path", "") for r in results if r.get("file_path")))
file_paths(results) == {Get(results[i], "file_path", "") : i \in 1..Len(results)} \ {""}

sum_file_tokens_per_result(results) == SumSeq([i \in 1..Len(results) |-> estimate_file_tokens(Get(results[i], "file_path", ""))])

\* sum(estimate_file_tokens(fp) for fp in file_paths)
sum_file_tokens(results) == Sum([fp \in file_paths(results) |-> estimate_file_tokens(fp)], file_paths(results))

\* How often the call opens each file: once per element of file_paths.
file_reads(results) == [fp \in file_paths(results) |-> 1]

no_results_heuristic(r) == [r EXCEPT !.stats = calculate_savings(0, AvgFileTokens * MinFilesRead)]

\* if not results: return results, {all zero}
no_results(r) == [r EXCEPT !.stats = ZeroStats]

search_code_with_stats(w, query, persist_path, top_k) ==
    LET r == search_code(w, query, persist_path, top_k) @@ [stats |-> ZeroStats, reads |-> <<>>]
        results == r.value
    IN  IF results = <<>> THEN no_results(r)
        ELSE LET result_code == Join(<<"\n">>, [i \in 1..Len(results) |-> Get(results[i], "code", <<>>)])
                 tokens_used == count_tokens(result_code)
                 read_sum == sum_file_tokens(results)
                 tokens_without_search == IF read_sum = 0
                                          THEN AvgFileTokens * Max(MinFilesRead, Cardinality(file_paths(results)))
                                          ELSE read_sum
             IN  [r EXCEPT !.stats = calculate_savings(tokens_used, tokens_without_search),
                           !.reads = file_reads(results)]

is_indexed_except_reset(steps, w) == [value |-> FALSE, raised |-> FALSE, steps |-> steps, w |-> [w EXCEPT !.collection = None]]

\* except Exception: return False
is_indexed_except(steps, w) == [value |-> FALSE, raised |-> FALSE, steps |-> steps, w |-> w]

has_items_or_none(stats) == stats.total_functions >= 0

\* stats["total_functions"] > 0
has_items(stats) == stats.total_functions > 0

is_indexed_no_exists_check(w, persist_path) ==
    LET i == init_db(w, persist_path)
        s1 == <<Step("init_db", i)>>
    IN  IF i.raised THEN is_indexed_except(s1, i.w)
        ELSE LET g == get_stats(i.w)
                 s2 == Append(s1, Step("get_stats", g))
             IN  IF g.raised THEN is_indexed_except(s2, g.w)
                 ELSE [value |-> has_items(g.value), raised |-> FALSE, steps |-> s2, w |-> g.w]

is_indexed(w, persist_path) ==
    IF ~exists(w, persist_path) THEN [value |-> FALSE, raised |-> FALSE, steps |-> <<>>, w |-> w]
    ELSE LET i == init_db(w, persist_path)
             s1 == <<Step("init_db", i)>>
         IN  IF i.raised THEN is_indexed_except(s1, i.w)
             ELSE LET g == get_stats(i.w)
                      s2 == Append(s1, Step("get_stats", g))
                  IN  IF g.raised THEN is_indexed_except(s2, g.w)
                      ELSE [value |-> has_items(g.value), raised |-> FALSE, steps |-> s2, w |-> g.w]

\* ------------------------------------------------------------ state machine
Idle == [op |-> "idle"]

TotalItems(c) == Sum([p \in Paths |-> c[p].n], Paths)

Init ==
    /\ chroma = [p \in Paths |-> [dir |-> FALSE, n |-> 0]]
    /\ collection = None
    /\ fault = "none"
    /\ readable = Files
    /\ HAS_TIKTOKEN \in BOOLEAN
    /\ ret = Idle

\* --- the public operations, each a whole call
SearchCode ==
    \E query \in Queries, persist_path \in Paths, top_k \in 0..MaxTopK :
        LET r == search_code(World, query, persist_path, top_k)
        IN  /\ chroma' = r.w.chroma
            /\ collection' = r.w.collection
            /\ ret' = [op |-> "search_code", value |-> r.value, raised |-> r.raised,
                       printed |-> r.printed, steps |-> r.steps]
            /\ UNCHANGED <<fault, readable, HAS_TIKTOKEN>>

SearchCodeWithStats ==
    \E query \in Queries, persist_path \in Paths, top_k \in 0..MaxTopK :
        LET r == search_code_with_stats(World, query, persist_path, top_k)
        IN  /\ chroma' = r.w.chroma
            /\ collection' = r.w.collection
            /\ ret' = [op |-> "search_code_with_stats", value |-> r.value, stats |-> r.stats,
                       raised |-> r.raised, printed |-> r.printed, steps |-> r.steps,
                       reads |-> r.reads]
            /\ UNCHANGED <<fault, readable, HAS_TIKTOKEN>>

IsIndexed ==
    \E persist_path \in Paths :
        LET r == is_indexed(World, persist_path)
        IN  /\ chroma' = r.w.chroma
            /\ collection' = r.w.collection
            /\ ret' = [op |-> "is_indexed", persist_path |-> persist_path, value |-> r.value,
                       raised |-> r.raised, steps |-> r.steps]
            /\ UNCHANGED <<fault, readable, HAS_TIKTOKEN>>

\* --- the environment: what happens between two calls
\* An indexer adds one function to the index at a path (creating it).
IndexFunction ==
    \E p \in Paths :
        /\ TotalItems(chroma) < MaxItems
        /\ chroma' = [chroma EXCEPT ![p] = [dir |-> TRUE, n |-> @.n + 1]]
        /\ ret' = Idle
        /\ UNCHANGED <<collection, fault, readable, HAS_TIKTOKEN>>

\* The index directory is deleted.
RemoveIndex ==
    \E p \in Paths :
        /\ chroma[p].dir
        /\ chroma' = [chroma EXCEPT ![p] = [dir |-> FALSE, n |-> 0]]
        /\ ret' = Idle
        /\ UNCHANGED <<collection, fault, readable, HAS_TIKTOKEN>>

\* A collaborator starts or stops failing.
SetFault ==
    \E f \in Faults \ {fault} :
        /\ fault' = f
        /\ ret' = Idle
        /\ UNCHANGED <<chroma, collection, readable, HAS_TIKTOKEN>>

\* A source file becomes unreadable, or readable again.
SetReadable ==
    \E f \in Files :
        /\ readable' = IF f \in readable THEN readable \ {f} ELSE readable \cup {f}
        /\ ret' = Idle
        /\ UNCHANGED <<chroma, collection, fault, HAS_TIKTOKEN>>

Next == SearchCode \/ SearchCodeWithStats \/ IsIndexed \/ IndexFunction \/ RemoveIndex \/ SetFault \/ SetReadable

Spec == Init /\ [][Next]_vars

\* ------------------------------------------------------------ the pure functions
\* calculate_savings and count_tokens_batch applied once to every bounded
\* input, from the state after import.
TextsPure == {Rep("x", n) : n \in 0..MaxTextLen} \cup {<<"x", " ">>}

BatchInputs == UNION {[1..m -> TextsPure] : m \in 0..MaxTexts}

CalculateSavings ==
    \E used \in 0..MaxTokens, without \in 0..MaxTokens :
        /\ ret.op = "idle"
        /\ ret' = [op |-> "calculate_savings", used |-> used, without |-> without,
                   value |-> calculate_savings(used, without)]
        /\ UNCHANGED <<chroma, collection, fault, readable, HAS_TIKTOKEN>>

CountTokensBatch ==
    \E texts \in BatchInputs :
        /\ ret.op = "idle"
        /\ ret' = [op |-> "count_tokens_batch", texts |-> texts, value |-> count_tokens_batch(texts)]
        /\ UNCHANGED <<chroma, collection, fault, readable, HAS_TIKTOKEN>>

NextPure == CalculateSavings \/ CountTokensBatch

SpecPure == Init /\ [][NextPure]_vars

\* ------------------------------------------------------------ claims
IsSearch == ret.op \in {"search_code", "search_code_with_stats"}

StepFailed == \E i \in 1..Len(ret.steps) : ~ret.steps[i].ok

\* The file paths the results carry, as the claims count them.
PathsOf(results) == {results[i].file_path : i \in {j \in 1..Len(results) : "file_path" \in DOMAIN results[j]}}

NonEmptyPathsOf(results) == PathsOf(results) \ {""}

\* Every file path of the results yields an estimate of 0 ...
AllUnread(results) == \A fp \in PathsOf(results) : estimate_file_tokens(fp) = 0

\* ... because open() fails on every one of them.
AllFailToRead(results) == \A fp \in PathsOf(results) : fp \notin readable

\* C1: search_code never raises; when index initialization, query embedding
\* or the nearest-neighbour search fails, the call returns the empty sequence.
C1_SearchNeverRaises ==
    ret.op = "search_code" => /\ ~ret.raised
                              /\ StepFailed => ret.value = <<>>

C1_Witness == ret.op = "search_code" /\ StepFailed /\ ret.value = <<>> /\ ~ret.raised

\* C2: is_indexed never raises and, for a persist_path that exists, returns
\* true iff init_db and get_stats both succeed and total_functions > 0.
C2_IsIndexedIff ==
    ret.op = "is_indexed" =>
        /\ ~ret.raised
        /\ chroma[ret.persist_path].dir =>
              LET s == ret.steps
                  initOk == Len(s) >= 1 /\ s[1].fn = "init_db" /\ s[1].ok
                  statsOk == Len(s) >= 2 /\ s[2].fn = "get_stats" /\ s[2].ok
              IN  /\ Len(s) >= 1
                  /\ ret.value <=> (initOk /\ statsOk /\ s[2].out.total_functions > 0)
                  /\ StepFailed => ~ret.value

C2_Witness == ret.op = "is_indexed" /\ chroma[ret.persist_path].dir /\ ret.value /\ chroma[ret.persist_path].n > 0

\* C3: when nothing exists at persist_path, is_indexed returns false without
\* calling init_db or get_stats and leaves the filesystem and the index state
\* unchanged.
C3_AbsentPathNoEffect ==
    [][(ret'.op = "is_indexed" /\ ~chroma[ret'.persist_path].dir) =>
          /\ ret'.value = FALSE
          /\ ~ret'.raised
          /\ ret'.steps = <<>>
          /\ UNCHANGED <<chroma, collection, readable>>]_vars

C3_Witness == ret.op = "is_indexed" /\ ~chroma[ret.persist_path].dir /\ ret.value = FALSE /\ ret.steps = <<>>

\* C4 as stated: with non-empty results whose file paths all fail to read,
\* tokens_without_search = 500 * max(3, number of distinct file paths).
C4_Original ==
    (ret.op = "search_code_with_stats" /\ ret.value # <<>> /\ AllFailToRead(ret.value)) =>
        ret.stats.tokens_without_search = 500 * Max(3, Cardinality(PathsOf(ret.value)))

\* C4 (amended): with non-empty results whose file paths all estimate to 0,
\* tokens_without_search = 500 * max(3, number of distinct NON-EMPTY file
\* paths): an empty file_path is not counted.
C4_HeuristicNonEmptyPaths ==
    (ret.op = "search_code_with_stats" /\ ret.value # <<>> /\ AllUnread(ret.value)) =>
        ret.stats.tokens_without_search = 500 * Max(3, Cardinality(NonEmptyPathsOf(ret.value)))

C4_Witness ==
    /\ ret.op = "search_code_with_stats" /\ ret.value # <<>> /\ AllFailToRead(ret.value)
    /\ "" \in PathsOf(ret.value)
    /\ Cardinality(NonEmptyPathsOf(ret.value)) = 3
    /\ ret.stats.tokens_without_search = 1500

\* C5: search_code_with_stats whose search yields no result returns the empty
\* sequence with the all-zero TokenStats; the heuristic is not applied and no
\* file is read.
C5_NoResultsZeroStats ==
    (ret.op = "search_code_with_stats" /\ (ret.value = <<>> \/ StepFailed)) =>
        /\ ret.value = <<>>
        /\ ret.stats = [tokens_used |-> 0, tokens_without_search |-> 0, tokens_saved |-> 0, percent_saved |-> 0]
        /\ DOMAIN ret.reads = {}

C5_Witness == ret.op = "search_code_with_stats" /\ ret.value = <<>> /\ ~StepFailed /\ Len(ret.steps) = 3

\* C6: for used, without >= 0, tokens_saved = max(0, without - used), hence
\* 0 <= tokens_saved <= without, and percent_saved = 0.0 when without = 0.
C6_SavingsInvariant ==
    ret.op = "calculate_savings" =>
        LET v == ret.value
        IN  /\ v.tokens_saved >= 0 /\ v.tokens_saved <= ret.without
            /\ ret.without >= ret.used => v.tokens_saved = ret.without - ret.used
            /\ ret.without < ret.used => v.tokens_saved = 0
            /\ ret.without = 0 => v.percent_saved = 0

C6_Witness == ret.op = "calculate_savings" /\ ret.used > ret.without /\ ret.without > 0 /\ ret.value.tokens_saved = 0

RECURSIVE Concat(_)
Concat(texts) == IF texts = <<>> THEN <<>> ELSE Head(texts) \o Concat(Tail(texts))

RECURSIVE Leftover(_)
\* The characters the estimator drops text by text: sum of len(t) mod 4.
Leftover(texts) == IF texts = <<>> THEN 0 ELSE (Len(Head(texts)) % 4) + Leftover(Tail(texts))

\* C7 as stated: under the character estimator, count_tokens_batch(texts)
\* equals count_tokens of the concatenation of texts.
C7_Original ==
    (ret.op = "count_tokens_batch" /\ ~HAS_TIKTOKEN) => ret.value = count_tokens(Concat(ret.texts))

\* C7 (amended): under the character estimator, count_tokens of the
\* concatenation equals count_tokens_batch(texts) plus floor(L / 4), L the sum
\* of len(t) mod 4 over the texts; so the batch count never exceeds it and
\* equals it exactly when L < 4.
C7_BatchVersusConcat ==
    (ret.op = "count_tokens_batch" /\ ~HAS_TIKTOKEN) =>
        /\ count_tokens(Concat(ret.texts)) = ret.value + (Leftover(ret.texts) \div 4)
        /\ ret.value <= count_tokens(Concat(ret.texts))
        /\ Len(Concat(ret.texts)) \div 4 = count_tokens(Concat(ret.texts))

C7_Witness ==
    /\ ret.op = "count_tokens_batch" /\ ~HAS_TIKTOKEN
    /\ Len(ret.texts) >= 2
    /\ ret.value >= 1
    /\ ret.value < count_tokens(Concat(ret.texts))

\* C8: is_indexed on a path that is already open changes neither the index
\* state (item counts, open handle) nor the filesystem, and a repeated call
\* on that path, nothing else having happened in between, returns the same
\* boolean.
C8_IsIndexedIdempotent ==
    [][(ret'.op = "is_indexed" /\ collection = ret'.persist_path) =>
          /\ UNCHANGED <<chroma, collection, readable>>
          /\ (ret.op = "is_indexed" /\ ret.persist_path = ret'.persist_path) => ret'.value = ret.value]_vars

C8_Witness == ret.op = "is_indexed" /\ collection = ret.persist_path /\ ret.value /\ Len(ret.steps) = 2

\* C9: a search call invokes init_db, embed_query and db_search at most once
\* each and in that order; a failing step is the last step invoked; the call
\* returns what db_search returned, unmodified, when all three succeed and the
\* empty sequence otherwise.
C9_SearchStateMachine ==
    IsSearch =>
        LET s == ret.steps
            order == <<"init_db", "embed_query", "db_search">>
        IN  /\ Len(s) \in 1..3
            /\ \A i \in 1..Len(s) : s[i].fn = order[i]
            /\ \A i \in 1..(Len(s) - 1) : s[i].ok
            /\ IF Len(s) = 3 /\ s[3].ok THEN ret.value = s[3].out ELSE ret.value = <<>>

C9_Witness ==
    /\ ret.op = "search_code" /\ Len(ret.steps) = 2 /\ ret.steps[1].ok /\ ~ret.steps[2].ok
    /\ ret.value = <<>>

\* C10: in search_code_with_stats with non-empty results, when the sum of the
\* file token estimates is positive, tokens_without_search is the sum of
\* estimate_file_tokens over the set of distinct non-empty file paths of the
\* results, each such file being read exactly once.
C10_DistinctFilesOnce ==
    LET D == NonEmptyPathsOf(ret.value)
        S == Sum([fp \in D |-> estimate_file_tokens(fp)], D)
    IN  (ret.op = "search_code_with_stats" /\ ret.value # <<>> /\ S > 0) =>
            /\ ret.stats.tokens_without_search = S
            /\ ret.reads = [fp \in D |-> 1]

C10_Witness ==
    /\ ret.op = "search_code_with_stats"
    /\ \E i, j \in 1..Len(ret.value) :
          /\ i # j
          /\ "file_path" \in DOMAIN ret.value[i] /\ "file_path" \in DOMAIN ret.value[j]
          /\ ret.value[i].file_path = ret.value[j].file_path
          /\ estimate_file_tokens(ret.value[i].file_path) > 0
    /\ Cardinality(NonEmptyPathsOf(ret.value)) >= 2
    /\ ret.stats.tokens_without_search > 0

=============================================================================
